---- MODULE Spec2Model ----
(***************************************************************************)
(* Model of server.py: MyHTTPRequestHandler, a SimpleHTTPRequestHandler    *)
(* that adds CORS headers to every header block (end_headers) and serves   *)
(* byte ranges of audio files (do_GET).                                    *)
(*                                                                         *)
(* Text (header values, the Range header, paths, failure messages) is a    *)
(* sequence of tokens; a token is one character, except "bytes=" and the   *)
(* file extensions, which are kept as one token each.  One request is      *)
(* handled at a time (socketserver.TCPServer.serve_forever).  The handler  *)
(* is one atomic step; the order of what it does is kept in `trace`.       *)
(***************************************************************************)
EXTENDS Integers, Sequences, FiniteSets, TLC

\* Bounds of the model.
MaxRangeLen == 4        \* longest Range header value, in tokens
MaxFileSize == 4        \* largest file on disk, in bytes

\* ------------------------------------------------------------------------
\* Text helpers (Python str methods used by do_GET)
\* ------------------------------------------------------------------------

Digits == <<"0", "1", "2", "3", "4", "5", "6", "7", "8", "9">>

IsDigit(c) == \E d \in 1..10 : Digits[d] = c

DigitValue(c) == IF IsDigit(c) THEN (CHOOSE d \in 1..10 : Digits[d] = c) - 1 ELSE 0

\* str(n) for an integer n (lines 56, 57, 70)
RECURSIVE str(_)
str(n) ==
    IF n < 0 THEN <<"-">> \o str(0 - n)
    ELSE IF n < 10 THEN <<Digits[n + 1]>>
    ELSE str(n \div 10) \o <<Digits[(n % 10) + 1]>>

\* int(s) succeeds (lines 49, 51): s is a non-empty run of decimal digits.
\* (Python's int() also accepts blanks, a sign and '_'; a sign '-' cannot
\* reach int() at all, since the header is split on '-'.)
is_int_literal_lenient(s) == TRUE

is_int_literal(s) == Len(s) > 0 /\ \A i \in 1..Len(s) : IsDigit(s[i])

\* the value of int(s)
RECURSIVE int(_)
int(s) ==
    IF Len(s) = 0 THEN 0
    ELSE 10 * int(SubSeq(s, 1, Len(s) - 1)) + DigitValue(s[Len(s)])

\* the message of the ValueError int(s) raises
int_error(s) == <<"invalid literal for int() with base 10: '">> \o s \o <<"'">>

\* 'bytes=' in range_header (line 46)
contains(s, tok) == \E i \in 1..Len(s) : s[i] = tok

\* range_header.replace('bytes=', '') (line 47)
replace(s, tok) == SelectSeq(s, LAMBDA c : c # tok)

\* s.split(sep) (line 47): always at least one piece
RECURSIVE split(_, _)
split(s, sep) ==
    IF ~contains(s, sep) THEN <<s>>
    ELSE LET k == CHOOSE i \in 1..Len(s) :
                      s[i] = sep /\ \A j \in 1..(i - 1) : s[j] # sep
         IN <<SubSeq(s, 1, k - 1)>> \o split(SubSeq(s, k + 1, Len(s)), sep)

AudioExt == {".mp3", ".wav", ".ogg"}

\* self.path.endswith(('.mp3', '.wav', '.ogg')) (lines 21, 29)
endswith_audio(p) == Len(p) > 0 /\ p[Len(p)] \in AudioExt

\* self.path.lstrip('/') (line 31)
RECURSIVE lstrip(_)
lstrip(p) == IF Len(p) > 0 /\ p[1] = "/" THEN lstrip(Tail(p)) ELSE p

\* 'audio/mpeg' if self.path.endswith('.mp3') else 'audio/wav' (lines 23, 55, 69)
content_type(p) ==
    IF Len(p) > 0 /\ p[Len(p)] = ".mp3" THEN <<"audio/mpeg">> ELSE <<"audio/wav">>

\* ------------------------------------------------------------------------
\* The file system
\* ------------------------------------------------------------------------

FileNames == { <<"a", ".mp3">>, <<"b", ".wav">>, <<"c", ".ogg">> }

\* the bytes of a file of n bytes: pairwise different
Content(n) == [i \in 1..n |-> 10 + i]

EmptyFS == [f \in {} |-> <<>>]

FileSystems == {EmptyFS} \cup { [f \in FileNames |-> Content(n)] : n \in 0..MaxFileSize }

\* os.path.exists(filepath) (line 32)
os_path_exists_always(disk, filepath) == TRUE

os_path_exists(disk, filepath) == filepath \in DOMAIN disk

\* the bytes open(filepath, 'rb') gives access to (lines 62, 74)
file_content(disk, filepath) ==
    IF filepath \in DOMAIN disk THEN disk[filepath] ELSE <<>>

\* os.path.getsize(filepath) (line 36)
os_path_getsize(disk, filepath) == Len(file_content(disk, filepath))

\* ------------------------------------------------------------------------
\* What the handler does, in order: lines written to the connection
\* (status, header, end_headers, body, error_body) and operations on the
\* file object (open, seek, read, close)
\* ------------------------------------------------------------------------

Event(kind, code, name, value, data) ==
    [kind |-> kind, code |-> code, name |-> name, value |-> value, data |-> data]

StatusLine(code, message) == Event("status", code, "", message, <<>>)
HeaderLine(name, value)   == Event("header", 0, name, value, <<>>)
BlankLine                 == Event("end_headers", 0, "", <<>>, <<>>)
BodyBytes(data)           == Event("body", 0, "", <<>>, data)
ErrorPage(code)           == Event("error_body", code, "", <<>>, <<>>)
FileOp(kind, arg)         == Event(kind, arg, "", <<>>, <<>>)

\* The handler while it runs.  buf: _headers_buffer; trace: what was done so
\* far; handles: file objects that are open; connected: the client is still
\* there; pos, chunk: the file position and the bytes f.read returned;
\* exc: the message of the exception in flight, <<>> when there is none;
\* caught: the message of the exception the except clause caught.
NewHandler ==
    [buf |-> <<>>, trace |-> <<>>, handles |-> 0, connected |-> TRUE,
     pos |-> 0, chunk |-> <<>>, exc |-> <<>>, caught |-> <<>>]

\* A statement of a try body is skipped while an exception is in flight.
Raising(h) == h.exc # <<>>

raise(h, message) == [h EXCEPT !.exc = message]

\* BaseHTTPRequestHandler.send_response, as called at lines 54 and 68
send_response(h, code, message) ==
    IF Raising(h) THEN h
    ELSE [h EXCEPT !.buf = Append(@, StatusLine(code, message))]

\* BaseHTTPRequestHandler.send_header, as called at lines 16-18, 22-23, 55-58
send_header(h, name, value) ==
    IF Raising(h) THEN h
    ELSE [h EXCEPT !.buf = Append(@, HeaderLine(name, value))]

\* super().end_headers() (line 25): the buffered lines and the blank line
\* are written to the connection in one piece
super_end_headers(h) ==
    IF Raising(h) THEN h
    ELSE IF ~h.connected THEN raise(h, <<"[Errno 32] Broken pipe">>)
    ELSE [h EXCEPT !.trace = @ \o h.buf \o <<BlankLine>>, !.buf = <<>>]

\* the three CORS headers (lines 16-18)
cors_headers_missing(h) == h

cors_headers(h) ==
    send_header(
      send_header(
        send_header(h, "Access-Control-Allow-Origin", <<"*">>),
        "Access-Control-Allow-Methods", <<"GET, OPTIONS">>),
      "Access-Control-Allow-Headers", <<"*">>)

\* MyHTTPRequestHandler.end_headers (lines 14-25)
end_headers(h, path) ==
    LET h1 == cors_headers(h)
        h2 == IF endswith_audio(path)
              THEN send_header(send_header(h1, "Accept-Ranges", <<"bytes">>),
                               "Content-Type", content_type(path))
              ELSE h1
    IN super_end_headers(h2)

\* BaseHTTPRequestHandler.send_error, as called at lines 33 and 78: a status
\* line, its headers, self.end_headers(), which is the method above, and the
\* error page (its Content-Length header is left out)
send_error(h, path, code, message) ==
    LET h1 == send_response(h, code, message)
        h2 == send_header(h1, "Connection", <<"close">>)
        h3 == send_header(h2, "Content-Type", <<"text/html;charset=utf-8">>)
        h4 == end_headers(h3, path)
    IN IF Raising(h4) THEN h4
       ELSE [h4 EXCEPT !.trace = Append(@, ErrorPage(code))]

\* ------------------------------------------------------------------------
\* do_GET, the audio branch (lines 29-79)
\* ------------------------------------------------------------------------

\* the steps at which the environment can fail a request
Faults == {"none", "getsize", "open", "seek", "read", "write"}

\* if range_header: (line 40); None and '' are both false
range_present(range_header) == range_header.present /\ range_header.value # <<>>

\* Range parsing (lines 42-51): err is the message of the exception raised,
\* <<>> when there is none
Parsed(s, e) == [err |-> <<>>, byte_start |-> s, byte_end |-> e]
ParseError(message) == [err |-> message, byte_start |-> 0, byte_end |-> 0]

parse_range_suffix(value, file_size) ==
    LET ranges == split(replace(value, "bytes="), "-")
    IN  IF ~contains(value, "bytes=") THEN Parsed(0, file_size - 1)
        ELSE IF ranges[1] # <<>> /\ ~is_int_literal(ranges[1])
             THEN ParseError(int_error(ranges[1]))
        ELSE IF Len(ranges) < 2 THEN ParseError(<<"list index out of range">>)
        ELSE IF ranges[2] # <<>> /\ ~is_int_literal(ranges[2])
             THEN ParseError(int_error(ranges[2]))
        ELSE IF ranges[1] = <<>> /\ ranges[2] # <<>>
             THEN Parsed(file_size - int(ranges[2]), file_size - 1)
        ELSE Parsed(IF ranges[1] # <<>> THEN int(ranges[1]) ELSE 0,
                    IF ranges[2] # <<>> THEN int(ranges[2]) ELSE file_size - 1)

parse_range(value, file_size) ==
    LET ranges == split(replace(value, "bytes="), "-")
    IN  IF ~contains(value, "bytes=") THEN Parsed(0, file_size - 1)
        ELSE IF ranges[1] # <<>> /\ ~is_int_literal(ranges[1])
             THEN ParseError(int_error(ranges[1]))
        ELSE IF Len(ranges) < 2 THEN ParseError(<<"list index out of range">>)
        ELSE IF ranges[2] # <<>> /\ ~is_int_literal(ranges[2])
             THEN ParseError(int_error(ranges[2]))
        ELSE Parsed(IF ranges[1] # <<>> THEN int(ranges[1]) ELSE 0,
                    IF ranges[2] # <<>> THEN int(ranges[2]) ELSE file_size - 1)

\* byte_end - byte_start + 1 (lines 56, 64)
chunk_length_exclusive(byte_start, byte_end) == byte_end - byte_start

chunk_length(byte_start, byte_end) == byte_end - byte_start + 1

\* the header block of the partial response (lines 54-59)
send_partial_headers(h, path, byte_start, byte_end, file_size) ==
    LET h1 == send_response(h, 206, <<"Partial Content">>)
        h2 == send_header(h1, "Content-Type", content_type(path))
        h3 == send_header(h2, "Content-Length", str(chunk_length(byte_start, byte_end)))
        h4 == send_header(h3, "Content-Range",
                  <<"bytes", " ">> \o str(byte_start) \o <<"-">> \o str(byte_end)
                      \o <<"/">> \o str(file_size))
        h5 == send_header(h4, "Accept-Ranges", <<"bytes">>)
    IN end_headers(h5, path)

\* the header block of the full response (lines 68-72)
send_full_headers(h, path, file_size) ==
    LET h1 == send_response(h, 200, <<"OK">>)
        h2 == send_header(h1, "Content-Type", content_type(path))
        h3 == send_header(h2, "Content-Length", str(file_size))
        h4 == send_header(h3, "Accept-Ranges", <<"bytes">>)
    IN end_headers(h4, path)

\* open(filepath, 'rb') (lines 62, 74)
open_file(h, fault) ==
    IF Raising(h) THEN h
    ELSE IF fault = "open" THEN raise(h, <<"[Errno 13] Permission denied">>)
    ELSE [h EXCEPT !.handles = @ + 1, !.pos = 0,
                   !.trace = Append(@, FileOp("open", 0))]

\* f.seek(byte_start) (line 63); a negative offset is a ValueError
f_seek(h, offset, fault) ==
    IF Raising(h) THEN h
    ELSE IF fault = "seek" THEN raise(h, <<"[Errno 5] Input/output error">>)
    ELSE IF offset < 0 THEN raise(h, <<"negative seek value">>)
    ELSE [h EXCEPT !.pos = offset, !.trace = Append(@, FileOp("seek", offset))]

\* f.read(size) (lines 64, 75); f.read() is f.read(-1): to the end of file
f_read_literal(h, content, size, fault) ==
    LET last == IF h.pos + size > Len(content) THEN Len(content) ELSE h.pos + size
    IN  IF Raising(h) THEN h
        ELSE IF fault = "read" THEN raise(h, <<"[Errno 5] Input/output error">>)
        ELSE IF size < -1
             THEN raise(h, <<"read length must be non-negative or -1">>)
        ELSE [h EXCEPT !.chunk = IF h.pos + 1 > last THEN <<>>
                                 ELSE SubSeq(content, h.pos + 1, last),
                       !.trace = Append(@, FileOp("read", size))]

f_read(h, content, size, fault) ==
    LET last == IF size = -1 \/ h.pos + size > Len(content)
                THEN Len(content) ELSE h.pos + size
    IN  IF Raising(h) THEN h
        ELSE IF fault = "read" THEN raise(h, <<"[Errno 5] Input/output error">>)
        ELSE IF size < -1
             THEN raise(h, <<"read length must be non-negative or -1">>)
        ELSE [h EXCEPT !.chunk = IF h.pos + 1 > last THEN <<>>
                                 ELSE SubSeq(content, h.pos + 1, last),
                       !.trace = Append(@, FileOp("read", size))]

\* self.wfile.write(chunk) (lines 64, 75): fails when the client has gone,
\* and the connection stays broken
wfile_write(h, fault) ==
    IF Raising(h) THEN h
    ELSE IF fault = "write"
         THEN [h EXCEPT !.connected = FALSE,
                        !.exc = <<"[Errno 104] Connection reset by peer">>]
    ELSE [h EXCEPT !.trace = Append(@, BodyBytes(h.chunk))]

\* leaving the with block (lines 62-64, 74-75) closes the file object that
\* was opened, also when an exception is in flight
with_exit_leaky(h) ==
    IF h.handles > 0 /\ ~Raising(h)
    THEN [h EXCEPT !.handles = @ - 1, !.trace = Append(@, FileOp("close", 0))]
    ELSE h

with_exit(h) ==
    IF h.handles > 0
    THEN [h EXCEPT !.handles = @ - 1, !.trace = Append(@, FileOp("close", 0))]
    ELSE h

\* except Exception as e: self.send_error(500, str(e)) (lines 77-79)
except_Exception(h, path) ==
    IF ~Raising(h) THEN h
    ELSE send_error([h EXCEPT !.exc = <<>>, !.caught = h.exc], path, 500, h.exc)

\* lines 40-65: the range request
serve_range(h, path, content, file_size, range_header, fault) ==
    LET r  == parse_range(range_header.value, file_size)
        n  == chunk_length(r.byte_start, r.byte_end)
        h1 == IF r.err # <<>> THEN raise(h, r.err) ELSE h
        h2 == send_partial_headers(h1, path, r.byte_start, r.byte_end, file_size)
        h3 == open_file(h2, fault)
        h4 == f_seek(h3, r.byte_start, fault)
        h5 == f_read(h4, content, n, fault)
        h6 == wfile_write(h5, fault)
    IN  with_exit(h6)

\* lines 66-76: the full file
serve_full(h, path, content, file_size, fault) ==
    LET h1 == send_full_headers(h, path, file_size)
        h2 == open_file(h1, fault)
        h3 == f_read(h2, content, -1, fault)
        h4 == wfile_write(h3, fault)
    IN  with_exit(h4)

\* lines 30-79; os.path.getsize raises when the file cannot be examined
do_GET_audio(path, range_header, disk, fault) ==
    LET filepath  == lstrip(path)
        content   == file_content(disk, filepath)
        file_size == os_path_getsize(disk, filepath)
        h0        == NewHandler
    IN  IF ~os_path_exists(disk, filepath)
        THEN except_Exception(send_error(h0, path, 404, <<"Not Found">>), path)
        ELSE IF fault = "getsize" \/ filepath \notin DOMAIN disk
             THEN except_Exception(
                      raise(h0, <<"[Errno 2] No such file or directory">>), path)
        ELSE IF range_present(range_header)
             THEN except_Exception(
                      serve_range(h0, path, content, file_size, range_header, fault),
                      path)
        ELSE except_Exception(serve_full(h0, path, content, file_size, fault), path)

\* ------------------------------------------------------------------------
\* do_GET, every other path: super().do_GET() (line 82)
\* ------------------------------------------------------------------------

\* what SimpleHTTPRequestHandler.do_GET can answer
DefaultOutcomes == {200, 301, 304, 404}

\* SimpleHTTPRequestHandler.do_GET: each answer ends its header block with
\* self.end_headers(), which is the method of lines 14-25
super_do_GET(path, outcome) ==
    LET h0 == NewHandler
    IN  IF outcome = 404 THEN send_error(h0, path, 404, <<"File not found">>)
        ELSE IF outcome = 200
             THEN LET h1 == end_headers(
                              send_header(send_response(h0, 200, <<"OK">>),
                                          "Content-type", <<"text/html">>), path)
                  IN [h1 EXCEPT !.trace = Append(@, BodyBytes(<<>>))]
        ELSE IF outcome = 301
             THEN end_headers(
                      send_header(send_response(h0, 301, <<"Moved Permanently">>),
                                  "Location", path \o <<"/">>), path)
        ELSE end_headers(send_response(h0, 304, <<"Not Modified">>), path)

\* ------------------------------------------------------------------------
\* The server: one request at a time (lines 84-93)
\* ------------------------------------------------------------------------

VARIABLES
    pc,            \* "idle": waiting for a request; "done": do_GET has ended
    path,          \* self.path of the request
    range_header,  \* self.headers.get('Range'): present is FALSE for None
    fault,         \* the step at which the environment fails this request
    disk,          \* the files under the server's directory: name -> bytes
    trace,         \* what do_GET did, in order
    handles,       \* file objects left open
    caught,        \* the message of the exception do_GET's except clause caught
    escaped        \* the message of the exception that left do_GET

vars == <<pc, path, range_header, fault, disk, trace, handles, caught, escaped>>

NoRange == [present |-> FALSE, value |-> <<>>]

RangeTokens == {"bytes=", "-", "0", "1", "3", "a"}

RangeValues == UNION { [1..k -> RangeTokens] : k \in 0..MaxRangeLen }

RangeHeaders == {NoRange} \cup { [present |-> TRUE, value |-> v] : v \in RangeValues }

AudioPaths == { <<"/", "a", ".mp3">>, <<"/", "/", "b", ".wav">>, <<"/", "c", ".ogg">> }

OtherPaths == { <<"/", "index", ".html">>, <<"/", "a", ".mp3", "?v=1">> }

Init ==
    /\ pc = "idle"
    /\ path = <<>>
    /\ range_header = NoRange
    /\ fault = "none"
    /\ disk \in FileSystems
    /\ trace = <<>>
    /\ handles = 0
    /\ caught = <<>>
    /\ escaped = <<>>

Handled(h) ==
    /\ trace' = h.trace
    /\ handles' = handles + h.handles
    /\ caught' = h.caught
    /\ escaped' = h.exc
    /\ pc' = "done"
    /\ UNCHANGED disk

\* do_GET for a path with an audio extension (lines 29-79)
GetAudio ==
    /\ pc = "idle"
    /\ \E p \in AudioPaths, r \in RangeHeaders, f \in Faults :
          /\ endswith_audio(p)
          /\ path' = p
          /\ range_header' = r
          /\ fault' = f
          /\ Handled(do_GET_audio(p, r, disk, f))

\* do_GET for any other path (lines 29, 82)
GetDefault ==
    /\ pc = "idle"
    /\ \E p \in OtherPaths, o \in DefaultOutcomes,
          r \in {NoRange, [present |-> TRUE, value |-> <<"bytes=", "0", "-", "1">>]} :
          /\ ~endswith_audio(p)
          /\ path' = p
          /\ range_header' = r
          /\ fault' = "none"
          /\ Handled(super_do_GET(p, o))

\* the request is over; the server waits for the next one (line 91)
NextRequest ==
    /\ pc = "done"
    /\ pc' = "idle"
    /\ path' = <<>>
    /\ range_header' = NoRange
    /\ fault' = "none"
    /\ trace' = <<>>
    /\ caught' = <<>>
    /\ escaped' = <<>>
    /\ UNCHANGED <<disk, handles>>

Next == GetAudio \/ GetDefault \/ NextRequest

Spec == Init /\ [][Next]_vars

\* ------------------------------------------------------------------------
\* Reading a trace
\* ------------------------------------------------------------------------

\* the status lines written, in order
StatusCodes == [i \in 1..Len(SelectSeq(trace, LAMBDA e : e.kind = "status")) |->
                   SelectSeq(trace, LAMBDA e : e.kind = "status")[i].code]

\* the header block that status line i of the trace opens: up to the next
\* blank line; 0 when the block was never ended
BlockEnd(i) ==
    IF \E j \in (i + 1)..Len(trace) : trace[j].kind = "end_headers"
    THEN CHOOSE j \in (i + 1)..Len(trace) :
             /\ trace[j].kind = "end_headers"
             /\ \A k \in (i + 1)..(j - 1) : trace[k].kind # "end_headers"
    ELSE 0

\* the values header `name` has in the block of status line i
HeaderValues(i, name) ==
    { trace[k].value : k \in { m \in (i + 1)..BlockEnd(i) :
                                 trace[m].kind = "header" /\ trace[m].name = name } }

\* the body bytes written after position i
BodyAfter(i) ==
    LET bodies == SelectSeq(SubSeq(trace, i + 1, Len(trace)), LAMBDA e : e.kind = "body")
    IN  IF Len(bodies) = 0 THEN <<>> ELSE bodies[1].data

BodyWritten(i) == \E k \in (i + 1)..Len(trace) : trace[k].kind = "body"

\* a decimal number as a client reads it: an optional '-' and digits
RECURSIVE Decimal(_)
Decimal(t) ==
    IF Len(t) = 0 THEN 0
    ELSE IF t[1] = "-" THEN 0 - Decimal(Tail(t))
    ELSE 10 * Decimal(SubSeq(t, 1, Len(t) - 1))
         + (CHOOSE d \in 0..9 : Digits[d + 1] = t[Len(t)])

IndexOf(t, tok, from) ==
    CHOOSE i \in from..Len(t) : t[i] = tok /\ \A j \in from..(i - 1) : t[j] # tok

\* 'bytes S-E/T' as a client reads it; S and E may carry a sign
ContentRangeOf(t) ==
    LET dash  == IndexOf(t, "-", IF t[3] = "-" THEN 4 ELSE 3)
        slash == IndexOf(t, "/", dash + 1)
    IN  [start |-> Decimal(SubSeq(t, 3, dash - 1)),
         end   |-> Decimal(SubSeq(t, dash + 1, slash - 1)),
         total |-> Decimal(SubSeq(t, slash + 1, Len(t)))]

\* the request is for an audio file that is on disk, and the file can be
\* examined (any later step may still fail)
AudioRequest ==
    /\ pc = "done"
    /\ path \in AudioPaths
    /\ disk # EmptyFS
    /\ fault # "getsize"

FileBytes == disk[CHOOSE f \in DOMAIN disk : TRUE]

TotalSize == Len(FileBytes)

\* the Range header 'bytes=s-e' as a client writes it
RangeOf(s, e) ==
    [present |-> TRUE, value |-> <<"bytes=">> \o str(s) \o <<"-">> \o str(e)]

C2_FullFile ==
    (AudioRequest /\ ~range_header.present)
    => /\ Len(trace) > 0
       /\ trace[1].kind = "status" /\ trace[1].code = 200
       /\ HeaderValues(1, "Content-Length") # {}
       /\ \A v \in HeaderValues(1, "Content-Length") : Decimal(v) = TotalSize
       /\ HeaderValues(1, "Accept-Ranges") = { <<"bytes">> }
       /\ HeaderValues(1, "Content-Range") = {}
       /\ fault = "none" =>
              /\ StatusCodes = <<200>>
              /\ BodyWritten(1)
              /\ BodyAfter(1) = FileBytes

C2_Witness ==
    /\ AudioRequest /\ ~range_header.present /\ fault = "none"
    /\ TotalSize = 3
    /\ StatusCodes = <<200>>
    /\ Len(BodyAfter(1)) = 3

\* ------------------------------------------------------------------------
\* C3: every 206 response has Content-Length = end - start + 1, a
\* Content-Range 'bytes start-end/total_size' and bounds with
\* 0 <= start <= end <= total_size - 1, whatever the Range header and the
\* file size.
\* ------------------------------------------------------------------------
C3_BoundsWithinFile ==
    \A i \in 1..Len(trace) :
        (trace[i].kind = "status" /\ trace[i].code = 206)
        => \A cr \in HeaderValues(i, "Content-Range"),
              cl \in HeaderValues(i, "Content-Length") :
                  LET r == ContentRangeOf(cr)
                  IN  /\ Decimal(cl) = r.end - r.start + 1
                      /\ r.total = TotalSize
                      /\ 0 <= r.start
                      /\ r.start <= r.end
                      /\ r.end <= r.total - 1

\* ------------------------------------------------------------------------
\* C4: every response written, on any path and with any outcome, carries
\* Access-Control-Allow-Origin: *, Access-Control-Allow-Methods: GET, OPTIONS
\* and Access-Control-Allow-Headers: *.
\* ------------------------------------------------------------------------
C4_CorsOnEveryResponse ==
    \A i \in 1..Len(trace) :
        trace[i].kind = "status"
        => /\ BlockEnd(i) # 0
           /\ HeaderValues(i, "Access-Control-Allow-Origin") = { <<"*">> }
           /\ HeaderValues(i, "Access-Control-Allow-Methods") = { <<"GET, OPTIONS">> }
           /\ HeaderValues(i, "Access-Control-Allow-Headers") = { <<"*">> }

C4_Witness ==
    /\ pc = "done"
    /\ path \in OtherPaths
    /\ StatusCodes = <<404>>
    /\ HeaderValues(1, "Access-Control-Allow-Origin") = { <<"*">> }

\* ------------------------------------------------------------------------
\* C5: an audio path whose file does not exist is answered with 404, with
\* or without a Range header: no 200 or 206 is written, the Range header is
\* not parsed (no parse failure is caught) and no file is opened.
\* ------------------------------------------------------------------------
C5_NotFound ==
    (pc = "done" /\ path \in AudioPaths /\ disk = EmptyFS)
    => /\ StatusCodes = <<404>>
       /\ \A i \in 1..Len(trace) :
              trace[i].kind \notin {"open", "seek", "read", "close", "body"}
       /\ caught = <<>>
       /\ escaped = <<>>

C5_Witness ==
    /\ pc = "done" /\ path \in AudioPaths /\ disk = EmptyFS
    /\ range_header = [present |-> TRUE, value |-> <<"bytes=", "a">>]
    /\ StatusCodes = <<404>>

\* ------------------------------------------------------------------------
\* C6: any failure at any step of an audio request (size lookup, range
\* parsing, open, seek, read, write of the body) is caught and answered
\* with a 500 response carrying the failure text; no failure leaves do_GET.
\* ------------------------------------------------------------------------
C6_EveryFailureIs500 ==
    (pc = "done" /\ path \in AudioPaths)
    => /\ escaped = <<>>
       /\ caught # <<>> =>
              \E i \in 1..Len(trace) :
                  /\ trace[i].kind = "status" /\ trace[i].code = 500
                  /\ trace[i].value = caught
                  /\ \A j \in (i + 1)..Len(trace) : trace[j].kind # "status"

\* ------------------------------------------------------------------------
\* C7: a Range header with 'bytes=' that is malformed (a non-empty bound
\* that is not a number, or no '-' at all) on an existing audio file is
\* answered with 500 and the parse failure text, and nothing of a 206
\* response is written before it.
\* ------------------------------------------------------------------------
HasBytesUnit == range_header.present /\ \E i \in 1..Len(range_header.value) :
                                            range_header.value[i] = "bytes="

\* the two bounds of the header, as the text left and right of the first '-'
Bounds ==
    LET t  == SelectSeq(range_header.value, LAMBDA c : c # "bytes=")
        d1 == IF \E i \in 1..Len(t) : t[i] = "-" THEN IndexOf(t, "-", 1) ELSE 0
        u  == SubSeq(t, d1 + 1, Len(t))
        d2 == IF \E i \in 1..Len(u) : u[i] = "-" THEN IndexOf(u, "-", 1) ELSE Len(u) + 1
    IN  [dash  |-> d1 # 0,
         left  |-> IF d1 = 0 THEN t ELSE SubSeq(t, 1, d1 - 1),
         right |-> IF d1 = 0 THEN <<>> ELSE SubSeq(u, 1, d2 - 1)]

NotANumber(b) == b # <<>> /\ \E i \in 1..Len(b) : \A d \in 1..10 : Digits[d] # b[i]

Malformed == NotANumber(Bounds.left) \/ ~Bounds.dash \/ NotANumber(Bounds.right)

C7_MalformedRangeIs500 ==
    (AudioRequest /\ HasBytesUnit /\ Malformed)
    => /\ StatusCodes = <<500>>
       /\ trace[1].kind = "status" /\ trace[1].code = 500
       /\ trace[1].value = caught
       /\ \/ caught = <<"list index out of range">>
          \/ caught[1] = "invalid literal for int() with base 10: '"
       /\ \A i \in 1..Len(trace) : trace[i].kind # "body"

C7_Witness ==
    /\ AudioRequest
    /\ range_header = [present |-> TRUE, value |-> <<"bytes=", "a", "-", "3">>]
    /\ StatusCodes = <<500>>
    /\ caught = <<"invalid literal for int() with base 10: '", "a", "'">>

\* ------------------------------------------------------------------------
\* C8: an empty left bound gives start = 0 and an empty right bound gives
\* end = N - 1 for a file of N bytes: 'bytes=-k' is answered with
\* 'bytes 0-k/N', 'bytes=k-' with start k and end N - 1, 'bytes=-' with
\* start 0 and end N - 1.
\* ------------------------------------------------------------------------
C8_EmptyBoundDefaults ==
    (AudioRequest /\ HasBytesUnit /\ ~Malformed)
    => /\ Len(trace) > 0
       /\ trace[1].kind = "status" /\ trace[1].code = 206
       /\ HeaderValues(1, "Content-Range") # {}
       /\ \A cr \in HeaderValues(1, "Content-Range") :
              LET r == ContentRangeOf(cr)
              IN  /\ r.start = IF Bounds.left = <<>> THEN 0 ELSE Decimal(Bounds.left)
                  /\ r.end = IF Bounds.right = <<>> THEN TotalSize - 1
                             ELSE Decimal(Bounds.right)
                  /\ r.total = TotalSize

C8_Witness ==
    /\ AudioRequest /\ TotalSize = 4
    /\ range_header = [present |-> TRUE, value |-> <<"bytes=", "-", "1">>]
    /\ HeaderValues(1, "Content-Range")
           = { <<"bytes", " ", "0", "-", "1", "/", "4">> }

\* ------------------------------------------------------------------------
\* C9: at most one file handle is open at a time, it is opened only after
\* the header block was ended, and none stays open when do_GET is over,
\* also after a failure in seek, read or write.
\* ------------------------------------------------------------------------
OpenCount(i) ==
    Cardinality({ k \in 1..i : trace[k].kind = "open" })
    - Cardinality({ k \in 1..i : trace[k].kind = "close" })

C9_ScopedFileHandle ==
    /\ handles = 0
    /\ \A i \in 1..Len(trace) :
           /\ OpenCount(i) \in {0, 1}
           /\ trace[i].kind = "open" =>
                  \E j \in 1..(i - 1) : trace[j].kind = "end_headers"
    /\ pc = "done" => OpenCount(Len(trace)) = 0

C9_Witness ==
    /\ pc = "done"
    /\ fault \in {"seek", "read", "write"}
    /\ caught # <<>>
    /\ \E i \in 1..Len(trace) : trace[i].kind = "open"
    /\ handles = 0

\* ------------------------------------------------------------------------
\* C10: an audio request gets exactly one status line, whatever step fails:
\* no second status line follows a 200 or 206 header block, and the body
\* bytes written equal the Content-Length announced.
\* ------------------------------------------------------------------------
C10_OneStatusLine ==
    (pc = "done" /\ path \in AudioPaths)
    => /\ Len(StatusCodes) = 1
       /\ trace[1].code \in {200, 206} =>
              \A cl \in HeaderValues(1, "Content-Length") :
                  Len(BodyAfter(1)) = Decimal(cl)

====
